---- MODULE Spec2Model ----
(***************************************************************************)
(* A model of the Ascentra conversational agent                            *)
(* (src/src/ascentra_agent): the orchestrator Agent.handle_message, its    *)
(* clarification state machine, the rule-based intent classifier and the   *)
(* LLM-backed tools it dispatches to.                                      *)
(*                                                                         *)
(* Python strings are TLA+ strings; the string methods the code uses       *)
(* (strip, lower, split, isdigit, int, the substring test `in`) are        *)
(* defined below by what they do, character by character.                  *)
(* An Optional value is <<>> (None) or <<v>> (the value v).                *)
(***************************************************************************)
EXTENDS Naturals, Sequences, FiniteSets, TLC

None == <<>>
Some(v) == <<v>>
IsNone(o) == o = <<>>
Get(o) == o[1]

\* ------------------------------------------------------------------------
\* Python str methods
\* ------------------------------------------------------------------------

UpperAlpha == "ABCDEFGHIJKLMNOPQRSTUVWXYZ"
LowerAlpha == "abcdefghijklmnopqrstuvwxyz"
DecimalDigits == "0123456789"
\* A character str.isdigit() accepts and int() rejects (Numeric_Type=Digit
\* without General_Category=Nd), such as SUPERSCRIPT TWO, U+00B2.  The
\* module is kept in ASCII: "^" stands for that character in every input.
SuperscriptTwo == "^"

CharAt(s, i) == SubSeq(s, i, i)

IsWhitespace(c) == c \in {" ", "\n", "\t"}

\* The 0-based position of character c in string s, Len(s) if absent.
RECURSIVE IndexOf(_, _, _)
IndexOf(s, c, i) ==
    IF i > Len(s) THEN Len(s)
    ELSE IF CharAt(s, i) = c THEN i - 1
    ELSE IndexOf(s, c, i + 1)

LowerChar(c) ==
    LET k == IndexOf(UpperAlpha, c, 1)
    IN  IF k < Len(UpperAlpha) THEN CharAt(LowerAlpha, k + 1) ELSE c

\* str.lower()
RECURSIVE Lower(_)
Lower(s) == IF Len(s) = 0 THEN "" ELSE LowerChar(CharAt(s, 1)) \o Lower(Tail(s))

RECURSIVE LStrip(_)
LStrip(s) ==
    IF Len(s) = 0 THEN ""
    ELSE IF IsWhitespace(CharAt(s, 1)) THEN LStrip(Tail(s))
    ELSE s

RECURSIVE RStrip(_)
RStrip(s) ==
    IF Len(s) = 0 THEN ""
    ELSE IF IsWhitespace(CharAt(s, Len(s))) THEN RStrip(SubSeq(s, 1, Len(s) - 1))
    ELSE s

\* str.strip()
Strip(s) == RStrip(LStrip(s))

\* `sub in s` for strings
Contains(s, sub) ==
    /\ Len(sub) <= Len(s)
    /\ \E i \in 0..(Len(s) - Len(sub)) : SubSeq(s, i + 1, i + Len(sub)) = sub

\* str.split(): the maximal runs of non-whitespace characters, in order.
RECURSIVE SplitFrom(_, _, _)
SplitFrom(s, i, cur) ==
    IF i > Len(s) THEN (IF cur = "" THEN <<>> ELSE <<cur>>)
    ELSE IF IsWhitespace(CharAt(s, i))
         THEN (IF cur = "" THEN <<>> ELSE <<cur>>) \o SplitFrom(s, i + 1, "")
         ELSE SplitFrom(s, i + 1, cur \o CharAt(s, i))

Split(s) == SplitFrom(s, 1, "")

IsDecimalChar(c) == IndexOf(DecimalDigits, c, 1) < Len(DecimalDigits)

IsDigitChar(c) == IsDecimalChar(c) \/ c = SuperscriptTwo

\* str.isdigit(): non-empty and every character is a digit
IsDigit(s) == Len(s) > 0 /\ \A i \in 1..Len(s) : IsDigitChar(CharAt(s, i))

\* int(s) succeeds on a digit string only when every character is decimal;
\* otherwise it raises ValueError.
IntRaises(s) == \E i \in 1..Len(s) : ~IsDecimalChar(CharAt(s, i))

RECURSIVE ParseInt(_, _, _)
ParseInt(s, i, acc) ==
    IF i > Len(s) THEN acc
    ELSE ParseInt(s, i + 1, acc * Len(DecimalDigits) + IndexOf(DecimalDigits, CharAt(s, i), 1))

\* int(s) for a decimal digit string
Int(s) == ParseInt(s, 1, 0)

\* str(n) for a natural number
RECURSIVE ToStr(_)
ToStr(n) ==
    IF n < Len(DecimalDigits) THEN CharAt(DecimalDigits, n + 1)
    ELSE ToStr(n \div Len(DecimalDigits)) \o CharAt(DecimalDigits, (n % Len(DecimalDigits)) + 1)

\* sep.join(parts)
RECURSIVE Join(_, _)
Join(parts, sep) ==
    IF Len(parts) = 0 THEN ""
    ELSE IF Len(parts) = 1 THEN parts[1]
    ELSE parts[1] \o sep \o Join(Tail(parts), sep)

\* Whether x occurs in the list xs
InList(x, xs) == \E i \in 1..Len(xs) : xs[i] = x

\* ------------------------------------------------------------------------
\* Contracts: questions, filters, specifications
\* ------------------------------------------------------------------------

Question(qid, label, type, options) ==
    [question_id |-> qid, label |-> label, type |-> type, options |-> options]

\* The catalog of the ambiguity tests.
AmbiguousQuestions == <<
    Question("Q_PLAN", "Subscription Plan", "single_choice", {}),
    Question("Q_OVERALL_SAT", "Overall Satisfaction", "likert_1_5", {}),
    Question("Q_SUPPORT_SAT", "Support Satisfaction", "likert_1_5", {}),
    Question("Q_REGION", "Region", "single_choice", {}),
    Question("Q_NPS", "Net Promoter Score", "nps_0_10", {}) >>

\* A catalog shaped like the demo data the invalid-request tests run on:
\* declared option codes, a numeric and a multi-choice question, and two
\* scale questions whose labels share the scale "1-5".
DemoQuestions == <<
    Question("Q_GENDER", "Gender", "single_choice", {"M", "F"}),
    Question("Q_REGION", "Region", "single_choice", {"NORTH", "SOUTH"}),
    Question("Q_AGE", "Age", "numeric", {}),
    Question("Q_FEATURES_USED", "Features used", "multi_choice", {"DASH", "API"}),
    Question("Q_EASE", "Ease of use 1-5", "likert_1_5", {}),
    Question("Q_VALUE", "Value for money 1-5", "likert_1_5", {}) >>

\* A catalog whose plan question has its id in lower case: it collides
\* with the token "plan" and is not found under the key "Q_PLAN".
LowerCasePlanQuestions == <<
    Question("q_plan", "Tariff", "single_choice", {}),
    Question("Q_REGION", "Region", "single_choice", {}) >>

Catalogs == {AmbiguousQuestions, DemoQuestions, LowerCasePlanQuestions}

\* The lines a user may type.
Inputs == {
    "satisfaction", "plan", "Analyse Plan", "create an analysis plan",
    "1", " 2 ", "5", "e", "^",
    "hello", "Define segment where Region > North",
    "show Q_REGION", "Q_REGION Q_AGE", "break down by region",
    "suggest a plan for a segment show", "define segment and show hello",
    "define segment users who are hello", "hello my plan is Q_REGION",
    "average satisfaction", "net promoter score", "analyze satisfaction",
    "", "  " }

\* Agent.__init__: questions_by_id = {q.question_id: q for q in questions}.
\* The dict is the set of its keys with the lookup below (a later entry with
\* the same key replaces an earlier one).
QuestionIds(questions) == {questions[i].question_id : i \in 1..Len(questions)}

QuestionById(questions, qid) ==
    LET k == CHOOSE i \in 1..Len(questions) :
                    /\ questions[i].question_id = qid
                    /\ \A j \in (i + 1)..Len(questions) : questions[j].question_id # qid
    IN  questions[k]

\* Filter literals are str | int: [str |-> s] or [int |-> n].
StrVal(s) == [str |-> s]
IntVal(n) == [int |-> n]
IsStrVal(v) == DOMAIN v = {"str"}
ValueStr(v) == IF IsStrVal(v) THEN v.str ELSE ToStr(v.int)

\* Leaf predicates of contracts/filters.py.
PredicateEq(qid, value) == [kind |-> "eq", question_id |-> qid, value |-> value]
PredicateIn(qid, values) == [kind |-> "in", question_id |-> qid, values |-> values]
PredicateContainsAny(qid, values) ==
    [kind |-> "contains_any", question_id |-> qid, values |-> values]
PredicateGt(qid, value) == [kind |-> "gt", question_id |-> qid, value |-> value]
PredicateRange(qid, min, max, inclusive) ==
    [kind |-> "range", question_id |-> qid, min |-> min, max |-> max,
     inclusive |-> inclusive]

SegmentSpec(segment_id, name, definition) ==
    [segment_id |-> segment_id, name |-> name, definition |-> definition]

MetricSpec(type, qid) == [type |-> type, question_id |-> qid, params |-> <<>>]
DimensionSpec(kind, id) == [kind |-> kind, id |-> id]
CutSpec(cut_id, metric, dimensions, filter) ==
    [cut_id |-> cut_id, metric |-> metric, dimensions |-> dimensions, filter |-> filter]

UserIntent(intent_type, confidence, reasoning) ==
    [intent_type |-> intent_type, confidence |-> confidence, reasoning |-> reasoning]

DisambiguationOption(option_id, label, action_type, action_params) ==
    [option_id |-> option_id, label |-> label, action_type |-> action_type,
     action_params |-> action_params]

ClarifyRequest(question, options) == [question |-> question, options |-> options]

\* AgentResponse; message, data and clarify are Optional.
AgentResponse(intent, success, message, errors, data, clarify) ==
    [intent |-> intent, success |-> success, message |-> message,
     errors |-> errors, data |-> data, clarify |-> clarify]

\* ToolMessage and the ToolOutput envelope (contracts/tool_output.py)
err(code, message) == [code |-> code, message |-> message]
ToolSuccess(data) == [ok |-> TRUE, data |-> Some(data), errors |-> <<>>]
\* A failure envelope that keeps ok=true
ToolFailure_OkWithErrors(errors) == [ok |-> TRUE, data |-> None, errors |-> errors]
ToolFailure(errors) == [ok |-> FALSE, data |-> None, errors |-> errors]

\* [f"{e.code}: {e.message}" for e in out.errors]
FormatErrors(errors) == [i \in 1..Len(errors) |-> errors[i].code \o ": " \o errors[i].message]

\* ------------------------------------------------------------------------
\* tools/intent_classifier.py
\* ------------------------------------------------------------------------

\* Confidences are kept in hundredths: 0.95 is 95, 1.0 is 100.

plan_verbs == <<
    "create an analysis plan", "create analysis plan",
    "plan the analysis", "plan an analysis",
    "suggest a plan", "suggest an analysis plan",
    "suggest a plan for",
    "what should we analyze", "what should i analyze",
    "give me a roadmap", "roadmap of analyses" >>

analysis_action_verbs == <<"analyze", "show", "display">>

segment_words == <<"segment", "cohort", "audience">>

segment_verbs == <<
    "define segment", "create segment", "build segment",
    "define a segment", "create a segment", "build a segment",
    "define cohort", "create cohort", "build cohort",
    "build a cohort for", "build cohort for",
    "define audience", "create audience", "build audience",
    "create an audience", "build an audience",
    "filter to customers", "filter to users" >>

segment_patterns == <<"users who are", "users aged", "customers aged", "customers who">>

chat_patterns == <<
    "hello", "hi", "hey", "help", "thanks", "thank you",
    "what can you do", "how does this work", "what is a",
    "how do i", "can you explain", "tell me about" >>

casual_phrases == <<
    "my plan is", "our plan is", "the plan is",
    "what is a segment", "what is a cut", "explain segment",
    "pricing plan", "subscription plan", "plan problem" >>

analysis_verbs == <<
    "show", "analyze", "display", "break down", "breakdown",
    "distribution", "frequency", "compare", "average",
    "mean", "count", "percentage", "what is the" >>

\* FirstIn that takes the last phrase of the list that occurs in text
FirstIn_Last(phrases, text) ==
    IF \E i \in 1..Len(phrases) : Contains(text, phrases[i])
    THEN CHOOSE i \in 1..Len(phrases) :
            /\ Contains(text, phrases[i])
            /\ \A j \in (i + 1)..Len(phrases) : ~Contains(text, phrases[j])
    ELSE 0

\* The index of the first phrase of the list that occurs in text, 0 if none:
\* `for p in phrases: if p in text: return ...`
FirstIn(phrases, text) ==
    IF \E i \in 1..Len(phrases) : Contains(text, phrases[i])
    THEN CHOOSE i \in 1..Len(phrases) :
            /\ Contains(text, phrases[i])
            /\ \A j \in 1..(i - 1) : ~Contains(text, phrases[j])
    ELSE 0

\* AnyIn that finds nothing
AnyIn_Never(phrases, text) == FALSE

\* any(p in text for p in phrases)
AnyIn(phrases, text) == \E i \in 1..Len(phrases) : Contains(text, phrases[i])

\* question_ids: the set of lower-cased question ids
LowerQuestionIds(questions) == {Lower(questions[i].question_id) : i \in 1..Len(questions)}

\* question_labels: the set of the lower-cased labels' whitespace tokens
QuestionLabelTokens(questions) ==
    UNION {{Split(Lower(questions[i].label))[k] :
                k \in 1..Len(Split(Lower(questions[i].label)))} : i \in 1..Len(questions)}

\* [token for token in text.split() if token in question_labels]
RECURSIVE FilterTokens(_, _)
FilterTokens(tokens, allowed) ==
    IF Len(tokens) = 0 THEN <<>>
    ELSE (IF tokens[1] \in allowed THEN <<tokens[1]>> ELSE <<>>)
            \o FilterTokens(Tail(tokens), allowed)

\* repr() of a list of plain strings, as an f-string prints it
ListRepr(strs) == "[" \o Join([i \in 1..Len(strs) |-> "'" \o strs[i] \o "'"], ", ") \o "]"

\* Tier 5 of _classify_intent, given the question id the loop over the set
\* question_ids stopped at (matched: None, or the id).
CutSignals(text, questions, matched) ==
    LET has_question_reference == ~IsNone(matched)
        has_analysis_verb == AnyIn(analysis_verbs, text)
        label_matches == FilterTokens(Split(text), QuestionLabelTokens(questions))
    IN  IF has_question_reference /\ has_analysis_verb
        THEN UserIntent("cut_analysis", 95,
                "Analysis verb + question reference (" \o Get(matched) \o ")")
        ELSE IF has_question_reference
        THEN UserIntent("cut_analysis", 85,
                "Question reference detected: " \o Get(matched))
        ELSE IF Contains(text, " by ") /\ has_analysis_verb
        THEN UserIntent("cut_analysis", 80,
                "Analysis pattern with 'by' dimension detected")
        ELSE IF has_analysis_verb /\ Len(label_matches) > 0
        THEN UserIntent("cut_analysis", 75,
                "Analysis verb + question label tokens: " \o ListRepr(label_matches))
        ELSE UserIntent("chat", 50, "No clear intent pattern detected, defaulting to chat")

\* `for qid in question_ids: if qid in text: ...; break` iterates a Python
\* set of strings, whose order is not fixed (string hashing is salted per
\* process): any id that occurs in the text may be the one found first.
MatchedQuestionChoices(text, questions) ==
    LET hits == {qid \in LowerQuestionIds(questions) : Contains(text, qid)}
    IN  IF hits = {} THEN {None} ELSE {Some(qid) : qid \in hits}

\* IntentClassifier._classify_intent: the set of results the call can return.
ClassifyIntent(prompt, questions) ==
    LET text == Strip(Lower(prompt))
        plan == FirstIn(plan_verbs, text)
        segv == FirstIn(segment_verbs, text)
        segp == FirstIn(segment_patterns, text)
        chat == FirstIn(chat_patterns, text)
        casual == FirstIn(casual_phrases, text)
    IN  IF plan > 0
        THEN {UserIntent("high_level_plan", 95,
                "Analysis planning phrase detected: '" \o plan_verbs[plan] \o "'")}
        ELSE IF AnyIn(analysis_action_verbs, text) /\ AnyIn(segment_words, text)
        THEN {UserIntent("cut_analysis", 90,
                "Multi-intent detected: analysis action takes priority")}
        ELSE IF segv > 0
        THEN {UserIntent("segment_definition", 95,
                "Segment creation verb detected: '" \o segment_verbs[segv] \o "'")}
        ELSE IF segp > 0
        THEN {UserIntent("segment_definition", 90,
                "Segment filter pattern detected: '" \o segment_patterns[segp] \o "'")}
        ELSE IF chat > 0
        THEN {UserIntent("chat", 90,
                "Conversational pattern detected: '" \o chat_patterns[chat] \o "'")}
        ELSE IF casual > 0
        THEN {UserIntent("chat", 90,
                "Casual mention detected: '" \o casual_phrases[casual] \o "'")}
        ELSE {CutSignals(text, questions, m) : m \in MatchedQuestionChoices(text, questions)}

\* ClassifyIntent for the model's inputs and catalogs, evaluated once.
ClassifyIntentTable ==
    {<<q, u, ClassifyIntent(u, q)>> : q \in Catalogs, u \in Inputs}

\* IntentClassifier.run: the envelopes the call can return.  The try block
\* around _classify_intent cannot fail on a string prompt.
IntentClassifierRun(prompt, questions) ==
    IF prompt = ""
    THEN {ToolFailure(<<err("missing_prompt", "No user input provided")>>)}
    ELSE {ToolSuccess(intent) :
            intent \in IF questions \in Catalogs /\ prompt \in Inputs
                       THEN (CHOOSE e \in ClassifyIntentTable :
                                e[1] = questions /\ e[2] = prompt)[3]
                       ELSE ClassifyIntent(prompt, questions)}

\* ------------------------------------------------------------------------
\* orchestrator/agent.py: formatting helpers
\* ------------------------------------------------------------------------

\* _q_label
QLabel(question_id, questions) ==
    IF question_id \notin QuestionIds(questions) THEN question_id
    ELSE LET q == QuestionById(questions, question_id)
         IN  q.label \o " (" \o q.question_id \o ")"

\* _segment_label
SegmentLabel(segment_id, segments_by_id) ==
    IF segment_id \notin DOMAIN segments_by_id THEN segment_id
    ELSE LET seg == segments_by_id[segment_id]
         IN  seg.name \o " (" \o seg.segment_id \o ")"

\* repr() of a list of str | int literals
ValuesRepr(values) ==
    "[" \o Join([i \in 1..Len(values) |->
                    IF IsStrVal(values[i]) THEN "'" \o values[i].str \o "'"
                    ELSE ToStr(values[i].int)], ", ") \o "]"

\* _format_filter, for the predicate kinds of the model
FormatFilter(expr, questions) ==
    LET q == QLabel(expr.question_id, questions)
    IN  CASE expr.kind = "eq" -> q \o " == " \o ValueStr(expr.value)
          [] expr.kind = "in" -> q \o " in " \o ValuesRepr(expr.values)
          [] expr.kind = "range" ->
                q \o " " \o (IF expr.inclusive THEN "between" ELSE "strictly between")
                  \o " [" \o ToStr(expr.min) \o ", " \o ToStr(expr.max) \o "]"
          [] expr.kind = "contains_any" -> q \o " contains any of " \o ValuesRepr(expr.values)
          [] expr.kind = "gt" -> q \o " > " \o ValueStr(expr.value)

\* _format_cut_spec.  Every cut of the model has empty metric params, so the
\* optional "- metric_params" line is never added.
FormatCutSpec(cut, questions, segments_by_id) ==
    LET metric == cut.metric.type \o " on " \o QLabel(cut.metric.question_id, questions)
        dims == [i \in 1..Len(cut.dimensions) |->
                    IF cut.dimensions[i].kind = "question"
                    THEN QLabel(cut.dimensions[i].id, questions)
                    ELSE SegmentLabel(cut.dimensions[i].id, segments_by_id)]
        filter_str == IF IsNone(cut.filter) THEN "(none)"
                      ELSE FormatFilter(Get(cut.filter), questions)
    IN  Join(<< "CutSpec:",
                "- cut_id: " \o cut.cut_id,
                "- metric: " \o metric,
                "- dimensions: " \o (IF Len(dims) > 0 THEN Join(dims, ", ") ELSE "(none)"),
                "- filter: " \o filter_str >>, "\n")

\* ------------------------------------------------------------------------
\* orchestrator/agent.py: Agent._maybe_build_clarification
\* ------------------------------------------------------------------------

\* The number of options a clarification offers at most (deduped[:5], matches[:5]).
MaxOptions == 5

\* Take without the cap: the whole list
Take_NoCap(seq, n) == seq

\* seq[:n]
Take(seq, n) == SubSeq(seq, 1, IF Len(seq) < n THEN Len(seq) ELSE n)

\* plan_collision
PlanCollision(tokens, questions) ==
    /\ InList("plan", tokens)
    /\ \E i \in 1..Len(questions) :
          \/ Contains(Lower(questions[i].label), "plan")
          \/ Lower(questions[i].question_id) = "q_plan"

\* Matches by question id only: labels are not searched
RECURSIVE Matches_IdOnly(_, _, _)
Matches_IdOnly(t, single_token, questions) ==
    IF Len(questions) = 0 THEN <<>>
    ELSE (IF single_token /\ t = Lower(questions[1].question_id)
          THEN <<questions[1]>> ELSE <<>>)
         \o Matches_IdOnly(t, single_token, Tail(questions))

\* matches: the questions a single token names, in catalog order
RECURSIVE Matches(_, _, _)
Matches(t, single_token, questions) ==
    IF Len(questions) = 0 THEN <<>>
    ELSE LET q == questions[1]
             hit == single_token /\ (t = Lower(q.question_id) \/ Contains(Lower(q.label), t))
         IN  (IF hit THEN <<q>> ELSE <<>>) \o Matches(t, single_token, Tail(questions))

\* BuildOptions with the per-match options before the plan-collision options
BuildOptions_MatchesFirst(plan_collision, matches, questions) ==
    LET plan_opts ==
            IF ~plan_collision THEN <<>>
            ELSE <<DisambiguationOption("opt_high_level_plan", "Create analysis plan",
                                        "high_level_plan", None)>>
        top == Take(matches, MaxOptions)
        match_opts == [i \in 1..Len(top) |->
                        DisambiguationOption("opt_cut_" \o top[i].question_id,
                            "Analyze " \o QLabel(top[i].question_id, questions),
                            "cut_analysis", Some(top[i].question_id))]
    IN  match_opts \o plan_opts

\* The options before de-duplication: plan-collision options, then one per match.
BuildOptions(plan_collision, matches, questions) ==
    LET plan_opts ==
            IF ~plan_collision THEN <<>>
            ELSE <<DisambiguationOption("opt_high_level_plan", "Create analysis plan",
                                        "high_level_plan", None)>>
                 \o (IF "Q_PLAN" \in QuestionIds(questions)
                     THEN <<DisambiguationOption("opt_cut_q_plan",
                                "Analyze " \o QLabel("Q_PLAN", questions),
                                "cut_analysis", Some("Q_PLAN"))>>
                     ELSE <<>>)
        top == Take(matches, MaxOptions)
        match_opts == [i \in 1..Len(top) |->
                        DisambiguationOption("opt_cut_" \o top[i].question_id,
                            "Analyze " \o QLabel(top[i].question_id, questions),
                            "cut_analysis", Some(top[i].question_id))]
    IN  plan_opts \o match_opts

\* De-duplicate by option_id while preserving order
RECURSIVE Dedupe(_, _)
Dedupe(options, seen) ==
    IF Len(options) = 0 THEN <<>>
    ELSE IF options[1].option_id \in seen THEN Dedupe(Tail(options), seen)
    ELSE <<options[1]>> \o Dedupe(Tail(options), seen \cup {options[1].option_id})

\* The tail of _maybe_build_clarification: None for no option, else the
\* request with the first five.
ClarifyFromOptions(deduped) ==
    IF Len(deduped) = 0 THEN None
    ELSE Some(ClarifyRequest("I am not sure what you meant. Which of these did you want?",
                             Take(deduped, MaxOptions)))

\* Agent._maybe_build_clarification: None or Some(ClarifyRequest)
MaybeBuildClarification(user_input, questions) ==
    LET token == Strip(user_input)
        t == Strip(Lower(token))
        tokens == Split(t)
        plan_collision == PlanCollision(tokens, questions)
        single_token == Len(tokens) = 1
        matches == Matches(t, single_token, questions)
    IN  IF token = "" THEN None
        ELSE IF (single_token /\ Len(matches) <= 1) /\ ~plan_collision THEN None
        ELSE ClarifyFromOptions(Dedupe(BuildOptions(plan_collision, matches, questions), {}))

\* ------------------------------------------------------------------------
\* The structured-completion collaborator and the LLM-backed tools
\* ------------------------------------------------------------------------

\* One call of chat_structured_pydantic either returns an instance of the
\* requested schema or raises (transport error, timeout, schema validation).
Raise(error) == [raises |-> TRUE, error |-> error]
Return(value) == [raises |-> FALSE, value |-> value]

\* CutPlanner.run reporting an exception of the completion as planning_failed
CutPlannerRun_RaiseAsPlanningFailed(prompt, llm) ==
    IF prompt = ""
    THEN ToolFailure(<<err("missing_prompt", "No analysis request provided")>>)
    ELSE IF llm.raises \/ ~llm.value.ok
    THEN ToolFailure(<<err("planning_failed", "Cut planner returned ok=false")>>)
    ELSE ToolSuccess(llm.value.cut)

\* CutPlanner.run
CutPlannerRun(prompt, llm) ==
    IF prompt = ""
    THEN ToolFailure(<<err("missing_prompt", "No analysis request provided")>>)
    ELSE IF llm.raises
    THEN ToolFailure(<<err("tool_error", "Cut planning failed: " \o llm.error)>>)
    ELSE IF ~llm.value.ok
    THEN ToolFailure(<<err("planning_failed", "Cut planner returned ok=false")>>)
    ELSE ToolSuccess(llm.value.cut)

\* SegmentBuilder.run
SegmentBuilderRun(prompt, llm) ==
    IF prompt = ""
    THEN ToolFailure(<<err("missing_prompt", "No segment description provided")>>)
    ELSE IF llm.raises
    THEN ToolFailure(<<err("tool_error", "Segment failed: " \o llm.error)>>)
    ELSE ToolSuccess(llm.value)

\* HighLevelPlanner.run (no prompt check: an empty prompt is replaced)
HighLevelPlannerRun(prompt, llm) ==
    IF llm.raises
    THEN ToolFailure(<<err("tool_error", "Plan failed: " \o llm.error)>>)
    ELSE ToolSuccess(llm.value)

\* ChatResponder.run
ChatResponderRun(prompt, llm) ==
    IF prompt = ""
    THEN ToolFailure(<<err("missing_prompt", "No user input provided")>>)
    ELSE IF llm.raises
    THEN ToolFailure(<<err("tool_error", "Chat failed: " \o llm.error)>>)
    ELSE ToolSuccess(llm.value)

\* Executor.execute_cuts([cut]): the engine is outside this model; the result
\* {tables, errors} is the environment's.  A table has base_n and a dataframe
\* (a header line and the rows' lines).
ExecuteCuts(cut, segments_by_id, outcome) == outcome

\* The rows of a table preview (df.head(20))
PreviewRows == 20

\* The intents of a plan that are listed (plan.intents[:20])
PlanItems == 20

\* df.empty
DfEmpty(df) == Len(df.rows) = 0

\* df.head(20).to_string(index=False)
DfPreview(df) == Join(<<df.header>> \o Take(df.rows, PreviewRows), "\n")

\* PlanMessage without the heading line
PlanMessage_NoHeading(plan) ==
    Join([i \in 1..Len(plan.intents) |-> ToStr(i) \o ". " \o plan.intents[i].description], "\n")

\* The "Analysis plan:" message of a HighLevelPlan
PlanMessage(plan) ==
    LET items == Take(plan.intents, PlanItems)
    IN  Join(<<"Analysis plan:">> \o
             [i \in 1..Len(items) |->
                ToStr(i) \o ". " \o items[i].description
                    \o " (priority " \o ToStr(items[i].priority) \o ")"], "\n")

\* ------------------------------------------------------------------------
\* orchestrator/agent.py: Agent.handle_message and Agent._execute_action
\* ------------------------------------------------------------------------

\* One call of a collaborator during a turn: the tool and its prompt (for
\* the executor, the cut id).
ToolCall(tool, arg) == [tool |-> tool, arg |-> arg]

\* The outcome of a turn: the session state it leaves, the response (None
\* when an exception escaped), the escaped exception and the calls made.
Returned(st, resp, calls) ==
    [segments |-> st.segments, segments_by_id |-> st.segments_by_id,
     pending |-> st.pending, resp |-> Some(resp), raised |-> None, calls |-> calls]

Raised(st, exception, calls) ==
    [segments |-> st.segments, segments_by_id |-> st.segments_by_id,
     pending |-> st.pending, resp |-> None, raised |-> Some(exception), calls |-> calls]

Failure(intent, errors) == AgentResponse(intent, FALSE, None, errors, None, None)
Success(intent, message, data) == AgentResponse(intent, TRUE, Some(message), <<>>, Some(data), None)

\* SegmentsAfter without the removal of the earlier entry
SegmentsAfter_AppendOnly(segments, seg) == segments \o <<seg>>

\* SegmentsAfter that keeps the earlier entry of a redefined segment
SegmentsAfter_KeepEarlier(segments, seg) ==
    IF \E i \in 1..Len(segments) : segments[i].segment_id = seg.segment_id
    THEN segments
    ELSE segments \o <<seg>>

\* self.segments = [s for s in self.segments if s.segment_id != seg.segment_id] + [seg]
SegmentsAfter(segments, seg) ==
    LET Other(s) == s.segment_id # seg.segment_id
    IN  SelectSeq(segments, Other) \o <<seg>>

\* SegmentsByIdAfter that forgets the other keys
SegmentsByIdAfter_OnlyNew(segments_by_id, seg) == [id \in {seg.segment_id} |-> seg]

\* self.segments_by_id[seg.segment_id] = seg
SegmentsByIdAfter(segments_by_id, seg) ==
    [id \in DOMAIN segments_by_id \cup {seg.segment_id} |->
        IF id = seg.segment_id THEN seg ELSE segments_by_id[id]]

\* CutMessage that adds the preview of an empty table too
CutMessage_AlwaysPreview(cut, base_n, df, questions, segments_by_id) ==
    LET cut_text == FormatCutSpec(cut, questions, segments_by_id)
        msg == cut_text \o "\n\nBase N: " \o ToStr(base_n)
    IN  IF ~IsNone(df) THEN msg \o "\n\n" \o DfPreview(Get(df)) ELSE msg

\* The message of a cut result
CutMessage(cut, base_n, df, questions, segments_by_id) ==
    LET cut_text == FormatCutSpec(cut, questions, segments_by_id)
        msg == cut_text \o "\n\nBase N: " \o ToStr(base_n)
    IN  IF ~IsNone(df) /\ ~DfEmpty(Get(df)) THEN msg \o "\n\n" \o DfPreview(Get(df)) ELSE msg

\* handle_message, intent high_level_plan
HandleHighLevelPlan(st, intent, user_input, env, calls) ==
    LET plan_out == HighLevelPlannerRun(user_input, env.plan)
        calls2 == Append(calls, ToolCall("high_level_planner", user_input))
    IN  IF ~plan_out.ok \/ IsNone(plan_out.data)
        THEN Returned(st, Failure(intent, FormatErrors(plan_out.errors)), calls2)
        ELSE Returned(st, Success(intent, PlanMessage(Get(plan_out.data)), Get(plan_out.data)),
                      calls2)

\* handle_message, intent segment_definition
HandleSegmentDefinition(st, intent, user_input, env, calls) ==
    LET seg_out == SegmentBuilderRun(user_input, env.seg)
        calls2 == Append(calls, ToolCall("segment_builder", user_input))
    IN  IF ~seg_out.ok \/ IsNone(seg_out.data)
        THEN Returned(st, Failure(intent, FormatErrors(seg_out.errors)), calls2)
        ELSE LET seg == Get(seg_out.data)
                 st2 == [st EXCEPT !.segments = SegmentsAfter(st.segments, seg),
                                   !.segments_by_id = SegmentsByIdAfter(st.segments_by_id, seg)]
             IN  Returned(st2,
                    Success(intent,
                        "Created segment " \o seg.name \o " (" \o seg.segment_id \o ")", seg),
                    calls2)

\* handle_message, intent cut_analysis
HandleCutAnalysis(st, intent, user_input, questions, env, calls) ==
    LET cut_out == CutPlannerRun(user_input, env.cut)
        calls2 == Append(calls, ToolCall("cut_planner", user_input))
    IN  IF ~cut_out.ok \/ IsNone(cut_out.data)
        THEN Returned(st, Failure(intent, FormatErrors(cut_out.errors)), calls2)
        ELSE LET cut == Get(cut_out.data)
                 exec_result == ExecuteCuts(cut, st.segments_by_id, env.exec)
                 calls3 == Append(calls2, ToolCall("executor", cut.cut_id))
             IN  IF Len(exec_result.errors) > 0
                 THEN Returned(st, Failure(intent, exec_result.errors), calls3)
                 ELSE IF Len(exec_result.tables) = 0
                 THEN Raised(st, "IndexError", calls3)  \* exec_result.tables[0]
                 ELSE LET table == exec_result.tables[1]
                      IN  Returned(st,
                            Success(intent,
                                CutMessage(cut, table.base_n, Some(table.df), questions,
                                           st.segments_by_id),
                                exec_result),
                            calls3)

\* HandleChat that asks the high-level planner before the chat responder
HandleChat_PlansFirst(st, intent, user_input, env, calls) ==
    LET chat_out == ChatResponderRun(user_input, env.chat)
        calls2 == calls \o <<ToolCall("high_level_planner", user_input),
                              ToolCall("chat_responder", user_input)>>
    IN  IF ~chat_out.ok \/ IsNone(chat_out.data)
        THEN Returned(st, Failure(intent, FormatErrors(chat_out.errors)), calls2)
        ELSE Returned(st, Success(intent, Get(chat_out.data).message, Get(chat_out.data)),
                      calls2)

\* handle_message, any other intent: chat
HandleChat(st, intent, user_input, env, calls) ==
    LET chat_out == ChatResponderRun(user_input, env.chat)
        calls2 == Append(calls, ToolCall("chat_responder", user_input))
    IN  IF ~chat_out.ok \/ IsNone(chat_out.data)
        THEN Returned(st, Failure(intent, FormatErrors(chat_out.errors)), calls2)
        ELSE Returned(st, Success(intent, Get(chat_out.data).message, Get(chat_out.data)),
                      calls2)

\* MaybeBuildClarification for the model's inputs and catalogs, evaluated once.
ClarificationTable ==
    {<<q, u, MaybeBuildClarification(u, q)>> : q \in Catalogs, u \in Inputs}

\* self._maybe_build_clarification(user_input)
Clarification(user_input, questions) ==
    IF questions \in Catalogs /\ user_input \in Inputs
    THEN (CHOOSE e \in ClarificationTable : e[1] = questions /\ e[2] = user_input)[3]
    ELSE MaybeBuildClarification(user_input, questions)

\* The clarification message
ClarifyMessage(clarify) ==
    Join(<<clarify.question, "", "Please choose one:">>
         \o [i \in 1..Len(clarify.options) |-> ToStr(i) \o ") " \o clarify.options[i].label]
         \o <<"Reply with a number.">>, "\n")

\* handle_message from the ambiguity check on (the session has no pending
\* options at this point).  intent_out is what intent_classifier.run returns
\* for user_input if it is called.
Route(st, user_input, questions, intent_out, env, calls0) ==
    LET clarify == Clarification(user_input, questions)
        calls1 == Append(calls0, ToolCall("_maybe_build_clarification", user_input))
        calls2 == Append(calls1, ToolCall("intent_classifier", user_input))
    IN  IF ~IsNone(clarify)
        THEN Returned([st EXCEPT !.pending = Some(Get(clarify).options)],
                AgentResponse(UserIntent("clarify", 100, "ambiguous input"), TRUE,
                    Some(ClarifyMessage(Get(clarify))), <<>>, None, clarify),
                calls1)
        ELSE IF ~intent_out.ok \/ IsNone(intent_out.data)
        THEN Returned(st, Failure(UserIntent("chat", 0, "intent failed"),
                                  FormatErrors(intent_out.errors)), calls2)
        ELSE LET intent == Get(intent_out.data)
             IN  CASE intent.intent_type = "high_level_plan" ->
                        HandleHighLevelPlan(st, intent, user_input, env, calls2)
                   [] intent.intent_type = "segment_definition" ->
                        HandleSegmentDefinition(st, intent, user_input, env, calls2)
                   [] intent.intent_type = "cut_analysis" ->
                        HandleCutAnalysis(st, intent, user_input, questions, env, calls2)
                   [] OTHER -> HandleChat(st, intent, user_input, env, calls2)

\* _execute_action, action_type high_level_plan
ExecutePlanAction(st, env) ==
    LET intent == UserIntent("high_level_plan", 100, "clarify selection")
        plan_out == HighLevelPlannerRun("Create an analysis plan", env.plan)
        calls == <<ToolCall("high_level_planner", "Create an analysis plan")>>
    IN  IF ~plan_out.ok \/ IsNone(plan_out.data)
        THEN Returned(st, Failure(intent, FormatErrors(plan_out.errors)), calls)
        ELSE Returned(st, Success(intent, PlanMessage(Get(plan_out.data)), Get(plan_out.data)),
                      calls)

\* _execute_action, action_type cut_analysis
ExecuteCutAction(st, action, questions, env) ==
    LET intent == UserIntent("cut_analysis", 100, "clarify selection")
        prompt == IF ~IsNone(action.action_params) /\ Get(action.action_params) # ""
                  THEN "analyze " \o Get(action.action_params)
                  ELSE action.label
        cut_out == CutPlannerRun(prompt, env.cut)
        calls == <<ToolCall("cut_planner", prompt)>>
    IN  IF ~cut_out.ok \/ IsNone(cut_out.data)
        THEN Returned(st, Failure(intent, FormatErrors(cut_out.errors)), calls)
        ELSE LET cut == Get(cut_out.data)
                 exec_result == ExecuteCuts(cut, st.segments_by_id, env.exec)
                 calls2 == Append(calls, ToolCall("executor", cut.cut_id))
                 table == IF Len(exec_result.tables) > 0 THEN Some(exec_result.tables[1])
                          ELSE None
                 base_n == IF ~IsNone(table) THEN Get(table).base_n ELSE 0
                 df == IF ~IsNone(table) THEN Some(Get(table).df) ELSE None
             IN  IF Len(exec_result.errors) > 0
                 THEN Returned(st, Failure(intent, exec_result.errors), calls2)
                 ELSE Returned(st,
                        Success(intent,
                            CutMessage(cut, base_n, df, questions, st.segments_by_id),
                            exec_result),
                        calls2)

\* _execute_action.  The other action types go back through handle_message
\* with the option's label as the prompt (no option is pending by then).
RECURSIVE HandleMessage(_, _, _, _)
ExecuteAction(st, action, questions, env) ==
    CASE action.action_type = "high_level_plan" -> ExecutePlanAction(st, env)
      [] action.action_type = "cut_analysis" -> ExecuteCutAction(st, action, questions, env)
      [] OTHER ->
            \* return self.handle_message(label)
            LET reentry == HandleMessage(st, action.label, questions,
                              [env EXCEPT !.intent_out =
                                  CHOOSE o \in IntentClassifierRun(action.label, questions) :
                                      TRUE])
            IN  [reentry EXCEPT
                    !.calls = <<ToolCall("handle_message", action.label)>> \o reentry.calls]

\* SelectedAction without the "- 1": the option after the chosen one
SelectedAction_OffByOne(pending_actions, idx) ==
    pending_actions[IF idx < Len(pending_actions) THEN idx + 1 ELSE 1]

\* self._pending_actions[idx - 1]
SelectedAction(pending_actions, idx) == pending_actions[idx]

\* self._pending_actions = None, on a follow-up that selects nothing
Cancelled(pending_actions) == None

\* text.isdigit() and 1 <= int(text) <= len(self._pending_actions); the
\* conversion is not reached for a text that is not a digit string.
InRange(text, pending_actions) ==
    1 <= Int(text) /\ Int(text) <= Len(pending_actions)

\* Agent.handle_message.  st is the session state (segments, segments_by_id,
\* pending), env the outcomes of the collaborators' calls of the turn.
HandleMessage(st, user_input, questions, env) ==
    LET text == Strip(user_input)
    IN  IF ~IsNone(st.pending) /\ IsDigit(text) /\ IntRaises(text)
        THEN Raised(st, "ValueError", <<>>)  \* int(text)
        ELSE IF ~IsNone(st.pending) /\ IsDigit(text) /\ InRange(text, Get(st.pending))
        THEN ExecuteAction([st EXCEPT !.pending = None],
                           SelectedAction(Get(st.pending), Int(text)), questions, env)
        ELSE Route([st EXCEPT !.pending = IF IsNone(st.pending) THEN None
                                          ELSE Cancelled(Get(st.pending))],
                   user_input, questions, env.intent_out, env, <<>>)

\* ------------------------------------------------------------------------
\* The environment: user inputs and collaborator outcomes
\* ------------------------------------------------------------------------

\* The largest base_n a result table of the model reports.
MaxBaseN == 2

\* Cut specifications the planning collaborator may return: the stub of the
\* happy-path tests, a cut with dimensions and a filter, and the invalid
\* cuts of the invalid-request tests.
cut_stub == CutSpec("cut_stub_001", MetricSpec("frequency", "Q_REGION"), <<>>, None)
cut_by_segment ==
    CutSpec("cut_by_segment", MetricSpec("frequency", "Q_REGION"),
            <<DimensionSpec("question", "Q_REGION"), DimensionSpec("segment", "seg_north")>>,
            Some(PredicateEq("Q_REGION", StrVal("NORTH"))))
cut_invalid_dim ==
    CutSpec("cut_invalid_dim", MetricSpec("frequency", "Q_REGION"),
            <<DimensionSpec("question", "QUNKNOWN")>>, None)
cut_invalid_metric == CutSpec("cut_invalid_metric", MetricSpec("mean", "Q_REGION"), <<>>, None)
cut_invalid_filter_id ==
    CutSpec("cut_invalid_filter_id", MetricSpec("frequency", "Q_REGION"), <<>>,
            Some(PredicateEq("UNKNOWN", IntVal(10))))
cut_invalid_filter_op ==
    CutSpec("cut_invalid_filter_op", MetricSpec("frequency", "Q_REGION"), <<>>,
            Some(PredicateGt("Q_REGION", IntVal(5))))
cut_invalid_filter_value ==
    CutSpec("cut_invalid_filter_value", MetricSpec("frequency", "Q_REGION"), <<>>,
            Some(PredicateEq("Q_REGION", StrVal("SOUTHEAST"))))

Cuts == {cut_stub, cut_by_segment, cut_invalid_dim, cut_invalid_metric,
         cut_invalid_filter_id, cut_invalid_filter_op, cut_invalid_filter_value}

\* The reply of the cut-planning collaborator before validation: ok and an
\* Optional cut.
CutPlanPayload(ok, cut) == [ok |-> ok, cut |-> cut]

\* What the collaborator may reply: inability without a cut, inability with
\* a cut, a plan.
CutPlanPayloads ==
    {CutPlanPayload(FALSE, None), CutPlanPayload(FALSE, Some(cut_stub))}
    \cup {CutPlanPayload(TRUE, Some(c)) : c \in Cuts}

\* CutPlanResult validation of a reply: cut is a required field, so a reply
\* without one raises a ValidationError instead of giving a result.
CutPlanResultValidate(payload) ==
    IF IsNone(payload.cut)
    THEN Raise("1 validation error for CutPlanResult")
    ELSE Return([ok |-> payload.ok, cut |-> Get(payload.cut)])

\* What one structured completion for CutPlanResult can do
CutPlanOutcomes == {CutPlanResultValidate(payload) : payload \in CutPlanPayloads}

\* Segment specifications the segment builder's completion may return
seg_north == SegmentSpec("seg_north", "North", PredicateEq("Q_REGION", StrVal("NORTH")))
seg_north_redefined ==
    SegmentSpec("seg_north", "North", PredicateIn("Q_REGION", <<StrVal("NORTH")>>))
seg_invalid == SegmentSpec("seg_invalid", "Invalid Segment", PredicateEq("UNKNOWN", IntVal(10)))
seg_invalid_op ==
    SegmentSpec("seg_invalid", "Invalid Segment", PredicateGt("Q_REGION", IntVal(5)))

SegmentSpecs == {seg_north, seg_north_redefined, seg_invalid, seg_invalid_op}

SegmentOutcomes == {Raise("request timed out")} \cup {Return(seg) : seg \in SegmentSpecs}

plan_stub ==
    [intents |-> <<[description |-> "Stub analysis", priority |-> 1]>>,
     rationale |-> "Stub rationale"]

PlanOutcomes == {Raise("request timed out"), Return(plan_stub)}

ChatOutcomes == {Raise("request timed out"), Return([message |-> "stub chat"])}

\* What the executor can report for one cut: an error, no table and no
\* error, an empty table, a table with rows.
Table(base_n, rows) == [base_n |-> base_n, df |-> [header |-> "value count", rows |-> rows]]

ExecOutcomes == {
    [tables |-> <<>>, errors |-> <<"Cut execution failed">>],
    [tables |-> <<>>, errors |-> <<>>],
    [tables |-> <<Table(0, <<>>)>>, errors |-> <<>>],
    [tables |-> <<Table(MaxBaseN, <<"NORTH " \o ToStr(MaxBaseN)>>)>>, errors |-> <<>>] }

Env(intent_out, cut, seg, plan, chat, exec) ==
    [intent_out |-> intent_out, cut |-> cut, seg |-> seg, plan |-> plan,
     chat |-> chat, exec |-> exec]

\* The environment in which every collaborator succeeds
HappyEnv(intent_out) ==
    Env(intent_out, Return([ok |-> TRUE, cut |-> cut_stub]), Return(seg_north),
        Return(plan_stub), Return([message |-> "stub chat"]),
        [tables |-> <<Table(0, <<>>)>>, errors |-> <<>>])

\* The environments of a turn, given the calls it makes when every
\* collaborator succeeds: every outcome of the collaborators called; the
\* others are never asked.
Envs(calls, intent_out) ==
    LET called == {calls[i].tool : i \in 1..Len(calls)}
        Of(tool, outcomes, default) == IF tool \in called THEN outcomes ELSE {default}
        h == HappyEnv(intent_out)
    IN  {Env(intent_out, c, s, p, ch, e) :
            c \in Of("cut_planner", CutPlanOutcomes, h.cut),
            s \in Of("segment_builder", SegmentOutcomes, h.seg),
            p \in Of("high_level_planner", PlanOutcomes, h.plan),
            ch \in Of("chat_responder", ChatOutcomes, h.chat),
            e \in Of("executor", ExecOutcomes, h.exec)}

\* ------------------------------------------------------------------------
\* The session as a state machine
\* ------------------------------------------------------------------------

VARIABLES
    self,   \* the Agent: questions (fixed at construction), segments,
            \* segments_by_id and pending (Agent._pending_actions)
    inbox,  \* the message the caller hands to handle_message next
    last,   \* the completed turn: input, environment, state before, outcome
    shown   \* the options of the most recent clarify response

vars == <<self, inbox, last, shown>>

State == [segments |-> self.segments, segments_by_id |-> self.segments_by_id,
          pending |-> self.pending]

\* Agent.__init__
Init ==
    /\ self \in {[questions |-> q, segments |-> <<>>, segments_by_id |-> <<>>,
                  pending |-> None] : q \in Catalogs}
    /\ inbox = None
    /\ last = None
    /\ shown = None

\* A caller has a string for handle_message: the read loop of cli.py (which
\* trims the line and skips an empty one), or any other caller of the public
\* method, which may pass any string.
Receive ==
    /\ IsNone(inbox)
    /\ \E user_input \in Inputs : inbox' = Some(user_input)
    /\ last' = None
    /\ UNCHANGED <<self, shown>>

\* One call of Agent.handle_message, start to end.
Handle ==
    /\ ~IsNone(inbox)
    /\ \E intent_out \in IntentClassifierRun(Get(inbox), self.questions) :
        \E happy \in {HandleMessage(State, Get(inbox), self.questions, HappyEnv(intent_out))} :
        \E env \in Envs(happy.calls, intent_out) :
            \E r \in {HandleMessage(State, Get(inbox), self.questions, env)} :
                /\ self' = [self EXCEPT !.segments = r.segments,
                                        !.segments_by_id = r.segments_by_id,
                                        !.pending = r.pending]
                /\ last' = Some([input |-> Get(inbox), env |-> env, pre |-> State,
                                 resp |-> r.resp, raised |-> r.raised, calls |-> r.calls])
                /\ shown' = IF ~IsNone(r.resp) /\ ~IsNone(Get(r.resp).clarify)
                            THEN Some(Get(Get(r.resp).clarify).options)
                            ELSE shown
    /\ inbox' = None

Next == Receive \/ Handle

Spec == Init /\ [][Next]_vars

\* ------------------------------------------------------------------------
\* contracts/validate.py and the domain checks of the specification
\* ------------------------------------------------------------------------

\* The metric types and the question types each applies to.
METRIC_TYPE_COMPATIBILITY ==
    [frequency |-> {"single_choice", "multi_choice", "likert_1_5", "likert_1_7",
                    "nps_0_10", "numeric"},
     mean |-> {"likert_1_5", "likert_1_7", "numeric", "nps_0_10"},
     top2box |-> {"likert_1_5", "likert_1_7"},
     bottom2box |-> {"likert_1_5", "likert_1_7"},
     nps |-> {"nps_0_10"}]

\* check_metric_compatibility: None or Some(ToolMessage)
check_metric_compatibility(metric_type, question_type) ==
    IF metric_type \notin DOMAIN METRIC_TYPE_COMPATIBILITY
    THEN Some(err("unknown_metric_type", "Unknown metric type: " \o metric_type))
    ELSE IF question_type \notin METRIC_TYPE_COMPATIBILITY[metric_type]
    THEN Some(err("metric_incompatible",
                  "Metric '" \o metric_type \o "' is not compatible with question type '"
                      \o question_type \o "'"))
    ELSE None

\* UnknownIdentifier: a question id the catalog does not hold, in the metric,
\* a question dimension or the filter.
UnknownIdentifier(cut, catalog) ==
    \/ cut.metric.question_id \notin QuestionIds(catalog)
    \/ \E i \in 1..Len(cut.dimensions) :
          /\ cut.dimensions[i].kind = "question"
          /\ cut.dimensions[i].id \notin QuestionIds(catalog)
    \/ ~IsNone(cut.filter) /\ Get(cut.filter).question_id \notin QuestionIds(catalog)

\* MetricIncompatible: the metric type does not apply to the question's type.
MetricIncompatible(cut, catalog) ==
    /\ cut.metric.question_id \in QuestionIds(catalog)
    /\ ~IsNone(check_metric_compatibility(cut.metric.type,
                    QuestionById(catalog, cut.metric.question_id).type))

\* FilterOperatorInvalid: ordinal comparisons only on numeric, likert and nps
\* questions, contains_any only on multi-choice ones.
FilterOperatorInvalid(predicate, catalog) ==
    /\ predicate.question_id \in QuestionIds(catalog)
    /\ LET type == QuestionById(catalog, predicate.question_id).type
       IN  \/ /\ predicate.kind \in {"gt", "gte", "lt", "lte", "range"}
              /\ type \notin {"numeric", "likert_1_5", "likert_1_7", "nps_0_10"}
           \/ predicate.kind = "contains_any" /\ type # "multi_choice"

\* The literals of a leaf predicate
Literals(predicate) ==
    IF predicate.kind \in {"in", "contains_any"}
    THEN {predicate.values[i] : i \in 1..Len(predicate.values)}
    ELSE IF predicate.kind = "range" THEN {}
    ELSE {predicate.value}

\* InvalidCriteriaValue: a literal outside the options the question declares.
InvalidCriteriaValue(predicate, catalog) ==
    /\ predicate.question_id \in QuestionIds(catalog)
    /\ LET options == QuestionById(catalog, predicate.question_id).options
       IN  /\ options # {}
           /\ \E v \in Literals(predicate) : ~(IsStrVal(v) /\ v.str \in options)

\* A cut specification that fails a domain check
InvalidCut(cut, catalog) ==
    \/ UnknownIdentifier(cut, catalog)
    \/ MetricIncompatible(cut, catalog)
    \/ /\ ~IsNone(cut.filter)
       /\ \/ FilterOperatorInvalid(Get(cut.filter), catalog)
          \/ InvalidCriteriaValue(Get(cut.filter), catalog)

\* A segment specification whose definition is invalid
InvalidSegment(seg, catalog) ==
    \/ seg.definition.question_id \notin QuestionIds(catalog)
    \/ FilterOperatorInvalid(seg.definition, catalog)
    \/ InvalidCriteriaValue(seg.definition, catalog)

\* What the message of a response must not show: LEAK_PATTERNS of the
\* graceful-failure tests (the stack-frame pattern by its fixed prefix), and
\* the error codes of the tools.
LEAK_PATTERNS ==
    {"Traceback (most recent call last):", "ValueError", "KeyError", "TypeError",
     "AssertionError", "Pydantic", "ValidationError", "File \"", "ToolOutput",
     "errors=[", "tool_error", "planning_failed", "missing_prompt"}

\* ------------------------------------------------------------------------
\* Properties of a turn
\* ------------------------------------------------------------------------

\* A call of handle_message has just ended (Receive clears the record).
TurnDone == ~IsNone(last)

\* The ended turn: input, env, pre (the state before), resp, raised, calls.
Turn == Get(last)

\* The collaborators the turn called
CalledTools == {Turn.calls[i].tool : i \in 1..Len(Turn.calls)}

\* The trimmed input of the turn
TurnText == Strip(Turn.input)

\* The turn left segments and segments_by_id as they were.
SegmentsUnchanged ==
    /\ self.segments = Turn.pre.segments
    /\ self.segments_by_id = Turn.pre.segments_by_id

\* The turn's response is a clarification.
IsClarifyTurn ==
    /\ ~IsNone(Turn.resp)
    /\ Get(Turn.resp).intent.intent_type = "clarify"
    /\ ~IsNone(Get(Turn.resp).clarify)

\* The cut planner returned a cut specification this turn.
CutPlanned ==
    /\ TurnDone
    /\ \E i \in 1..Len(Turn.calls) :
          /\ Turn.calls[i].tool = "cut_planner"
          /\ CutPlannerRun(Turn.calls[i].arg, Turn.env.cut).ok

\* The segment builder returned a segment specification this turn.
SegmentBuilt ==
    /\ TurnDone
    /\ \E i \in 1..Len(Turn.calls) :
          /\ Turn.calls[i].tool = "segment_builder"
          /\ SegmentBuilderRun(Turn.calls[i].arg, Turn.env.seg).ok

\* A tool returned a failure envelope or the executor reported errors.
ToolFailed ==
    /\ TurnDone
    /\ \E i \in 1..Len(Turn.calls) :
          LET c == Turn.calls[i]
          IN  \/ c.tool = "intent_classifier" /\ ~Turn.env.intent_out.ok
              \/ c.tool = "cut_planner" /\ ~CutPlannerRun(c.arg, Turn.env.cut).ok
              \/ c.tool = "segment_builder" /\ ~SegmentBuilderRun(c.arg, Turn.env.seg).ok
              \/ c.tool = "high_level_planner"
                    /\ ~HighLevelPlannerRun(c.arg, Turn.env.plan).ok
              \/ c.tool = "chat_responder" /\ ~ChatResponderRun(c.arg, Turn.env.chat).ok
              \/ c.tool = "executor" /\ Len(Turn.env.exec.errors) > 0

\* C1: when the cut planner returns a cut specification that fails a domain
\* check, the turn does not call Executor.execute_cuts and leaves segments
\* and segments_by_id as they were.
C1_InvalidCutNeverExecuted ==
    (CutPlanned /\ InvalidCut(Turn.env.cut.value.cut, self.questions))
        => ("executor" \notin CalledTools /\ SegmentsUnchanged)

\* C2: when the segment builder returns a segment specification whose
\* definition is invalid, the turn registers nothing (segments and
\* segments_by_id are as before) and executes nothing.
C2_InvalidSegmentNotRegistered ==
    (SegmentBuilt /\ InvalidSegment(Turn.env.seg.value, self.questions))
        => (SegmentsUnchanged /\ "executor" \notin CalledTools)

\* C3: on a turn in which a tool returns a failure envelope or the executor
\* reports errors, the response carries a non-empty message that shows no
\* exception class name, stack-trace marker, error code or envelope field.
C3_FailureHasCleanMessage ==
    ToolFailed =>
        /\ ~IsNone(Turn.resp)
        /\ ~IsNone(Get(Turn.resp).message)
        /\ Strip(Get(Get(Turn.resp).message)) # ""
        /\ \A pat \in LEAK_PATTERNS : ~Contains(Get(Get(Turn.resp).message), pat)

\* C4: handle_message never lets an exception escape: every turn ends with
\* an AgentResponse.
C4_NeverRaises == TurnDone => (IsNone(Turn.raised) /\ ~IsNone(Turn.resp))

\* An input that is a single token which, in any case, equals a question id
\* or lies in a question label, for more than one question of the catalog.
IsAmbiguousSingleToken(user_input, catalog) ==
    \E tokens \in {Split(Lower(Strip(user_input)))} :
        /\ Len(tokens) = 1
        /\ Cardinality({i \in 1..Len(catalog) :
                \/ tokens[1] = Lower(catalog[i].question_id)
                \/ Contains(Lower(catalog[i].label), tokens[1])}) > 1

\* IsAmbiguousSingleToken for the model's inputs and catalogs, evaluated once.
AmbiguousSingleTokenTable ==
    {<<c, u, IsAmbiguousSingleToken(u, c)>> : c \in Catalogs, u \in Inputs}

AmbiguousTurn ==
    TurnDone /\ <<self.questions, Turn.input, TRUE>> \in AmbiguousSingleTokenTable

\* A pure non-negative integer: a non-empty string of decimal digits
IsInteger(text) ==
    Len(text) > 0 /\ \A i \in 1..Len(text) : IsDecimalChar(CharAt(text, i))

\* The turn began with a clarification pending.
WasPending == TurnDone /\ ~IsNone(Turn.pre.pending)

\* The input of the turn selects one of the pending options.
IsSelection ==
    WasPending /\ IsInteger(TurnText) /\ InRange(TurnText, Get(Turn.pre.pending))

\* The turn answered with a clarification, called no planner, segment
\* builder, intent classifier or executor, and created no segment.
ClarifiedOnly ==
    /\ IsClarifyTurn
    /\ CalledTools \cap {"cut_planner", "high_level_planner", "segment_builder",
                          "intent_classifier", "executor"} = {}
    /\ SegmentsUnchanged

C6_PendingDiscarded ==
    WasPending =>
        \/ IsNone(self.pending)
        \/ /\ IsClarifyTurn
           /\ ~IsNone(MaybeBuildClarification(Turn.input, self.questions))
           /\ self.pending = Some(Get(Get(Turn.resp).clarify).options)

\* The call that carries out an option
ActionCall(option) ==
    IF option.action_type = "high_level_plan"
    THEN ToolCall("high_level_planner", "Create an analysis plan")
    ELSE ToolCall("cut_planner", "analyze " \o Get(option.action_params))

\* C7: with a clarification pending, an integer k in 1..len(options) carries
\* out the k-th option directly: no ambiguity check, no classifier, no
\* re-entry of handle_message; the response intent is the option's action
\* type and the session ends the turn with nothing pending.
C7_SelectionExecutesOption ==
    IsSelection =>
        \E option \in {Get(Turn.pre.pending)[Int(TurnText)]} :
            /\ ~IsNone(Turn.resp)
            /\ Len(Turn.calls) >= 1
            /\ Turn.calls[1] = ActionCall(option)
            /\ CalledTools \cap {"_maybe_build_clarification", "intent_classifier",
                                  "handle_message"} = {}
            /\ Get(Turn.resp).intent.intent_type = option.action_type
            /\ Get(Turn.resp).intent.intent_type # "clarify"
            /\ IsNone(self.pending)

\* C7 witness: the second of several pending options was selected and
\* carried out.
C7_Witness ==
    /\ IsSelection
    /\ Int(TurnText) = 2
    /\ ~IsNone(Turn.resp)
    /\ Get(Turn.resp).success

\* The input of the turn cancels the pending clarification: it is
\* non-numeric or an integer out of range.
IsCancel ==
    WasPending /\ (~IsInteger(TurnText) \/ ~InRange(TurnText, Get(Turn.pre.pending)))

\* C8: a cancelling input gets exactly the response, and leaves exactly the
\* session state, that it gets in a session with nothing pending and the
\* same segments.
C8_CancelIsFreshTurn ==
    IsCancel =>
        \E fresh \in {HandleMessage([Turn.pre EXCEPT !.pending = None], Turn.input,
                                    self.questions, Turn.env)} :
            /\ Turn.raised = fresh.raised
            /\ Turn.resp = fresh.resp
            /\ self.segments = fresh.segments
            /\ self.segments_by_id = fresh.segments_by_id
            /\ self.pending = fresh.pending

\* C9: the pending slot is empty or holds exactly the option list of the
\* most recent clarify response, of 1 to 5 options; a clarify response
\* replaces the slot's content with its own options.
C9_OnePendingClarification ==
    /\ \/ IsNone(self.pending)
       \/ /\ self.pending = shown
          /\ Len(Get(self.pending)) >= 1
          /\ Len(Get(self.pending)) <= 5
    /\ (TurnDone /\ IsClarifyTurn) =>
            self.pending = Some(Get(Get(Turn.resp).clarify).options)

\* C9 witness: a clarification was pending and an ambiguity trigger put a
\* different list of five options in its place.
C9_Witness ==
    /\ WasPending
    /\ IsClarifyTurn
    /\ self.pending # Turn.pre.pending
    /\ Len(Get(self.pending)) = 5

\* C10: after a successful segment_definition turn the segment's id has
\* exactly one entry in segments and one in segments_by_id, both the newest
\* definition; ids never repeat in the list and the map mirrors the list.
C10_RedefinitionKeepsOneEntry ==
    /\ \A i, j \in 1..Len(self.segments) :
          self.segments[i].segment_id = self.segments[j].segment_id => i = j
    /\ DOMAIN self.segments_by_id =
          {self.segments[i].segment_id : i \in 1..Len(self.segments)}
    /\ \A i \in 1..Len(self.segments) :
          self.segments_by_id[self.segments[i].segment_id] = self.segments[i]
    /\ SegmentBuilt =>
          \E seg \in {Turn.env.seg.value} :
              /\ Cardinality({i \in 1..Len(self.segments) :
                                 self.segments[i].segment_id = seg.segment_id}) = 1
              /\ self.segments[Len(self.segments)] = seg
              /\ self.segments_by_id[seg.segment_id] = seg

\* C10 witness: a segment id already defined was defined again, differently.
C10_Witness ==
    /\ SegmentBuilt
    /\ Turn.env.seg.value.segment_id \in DOMAIN Turn.pre.segments_by_id
    /\ Turn.pre.segments_by_id[Turn.env.seg.value.segment_id] # Turn.env.seg.value

\* ------------------------------------------------------------------------
\* Segment registry
\* ------------------------------------------------------------------------

\* The segment ids of a list of segments, in list order
SegmentIdsOf(segs) == [i \in 1..Len(segs) |-> segs[i].segment_id]

\* The turn registered a segment whose id was registered before the turn.
IsRedefinition ==
    SegmentBuilt /\ Turn.env.seg.value.segment_id \in DOMAIN Turn.pre.segments_by_id

\* C11: a turn that redefines a registered segment id leaves the order of
\* ids in the segments list as it was: the redefined segment keeps its
\* position and the other ids keep theirs.
C11_RedefinitionKeepsPosition ==
    IsRedefinition => SegmentIdsOf(self.segments) = SegmentIdsOf(Turn.pre.segments)

\* The turn returned a successful segment_definition response.
IsSegmentTurn ==
    /\ TurnDone
    /\ ~IsNone(Turn.resp)
    /\ Get(Turn.resp).success
    /\ Get(Turn.resp).intent.intent_type = "segment_definition"

\* C12: a successful segment_definition turn adds or replaces exactly the
\* entry of the segment it returns; every other turn (chat, plan, cut,
\* clarify, selection, failed or raising) leaves segments and segments_by_id
\* as they were; no turn removes a registered segment id.
C12_SegmentsChangeOnlyByDefinition ==
    TurnDone =>
        /\ DOMAIN Turn.pre.segments_by_id \subseteq DOMAIN self.segments_by_id
        /\ {Turn.pre.segments[i].segment_id : i \in 1..Len(Turn.pre.segments)}
              \subseteq {self.segments[i].segment_id : i \in 1..Len(self.segments)}
        /\ IF IsSegmentTurn
           THEN \E seg \in {Get(Get(Turn.resp).data)} :
                  /\ DOMAIN self.segments_by_id =
                        DOMAIN Turn.pre.segments_by_id \cup {seg.segment_id}
                  /\ self.segments_by_id[seg.segment_id] = seg
                  /\ \A id \in DOMAIN Turn.pre.segments_by_id \ {seg.segment_id} :
                        self.segments_by_id[id] = Turn.pre.segments_by_id[id]
                  /\ \A i \in 1..Len(Turn.pre.segments) :
                        Turn.pre.segments[i].segment_id # seg.segment_id =>
                            \E j \in 1..Len(self.segments) :
                                self.segments[j] = Turn.pre.segments[i]
           ELSE SegmentsUnchanged

\* C12 witness: a successful cut_analysis turn in a session that holds two
\* segments.
C12_Witness ==
    /\ TurnDone
    /\ Len(Turn.pre.segments) = 2
    /\ ~IsNone(Turn.resp)
    /\ Get(Turn.resp).success
    /\ Get(Turn.resp).intent.intent_type = "cut_analysis"

\* ------------------------------------------------------------------------
\* Properties of the intent classifier
\* ------------------------------------------------------------------------

\* Some phrase of the list occurs in the text.
Mentions(text, phrases) == \E i \in 1..Len(phrases) : Contains(text, phrases[i])

\* The first phrase of the list, in list order, that occurs in the text
FirstMentioned(text, phrases) ==
    phrases[CHOOSE i \in 1..Len(phrases) :
                /\ Contains(text, phrases[i])
                /\ \A j \in 1..(i - 1) : ~Contains(text, phrases[j])]

\* Some question id of the catalog occurs in the text, in any case.
MentionsQuestionId(text, catalog) ==
    \E i \in 1..Len(catalog) : Contains(text, Lower(catalog[i].question_id))

\* Some whitespace token of the text is a whitespace token of a question label.
MentionsLabelToken(text, catalog) ==
    \E i \in 1..Len(catalog) :
        \E tokens \in {Split(text)}, words \in {Split(Lower(catalog[i].label))} :
            \E a \in 1..Len(tokens), b \in 1..Len(words) : tokens[a] = words[b]

\* The tiers of the cascade, in priority order, as conditions on the
\* lower-cased, trimmed prompt.
TierHolds(k, text, catalog) ==
    CASE k = 1 -> Mentions(text, plan_verbs)
      [] k = 2 -> Mentions(text, analysis_action_verbs) /\ Mentions(text, segment_words)
      [] k = 3 -> Mentions(text, segment_verbs) \/ Mentions(text, segment_patterns)
      [] k = 4 -> Mentions(text, chat_patterns) \/ Mentions(text, casual_phrases)
      [] k = 5 -> \/ MentionsQuestionId(text, catalog)
                  \/ /\ Mentions(text, analysis_verbs)
                     /\ Contains(text, " by ") \/ MentionsLabelToken(text, catalog)
      [] OTHER -> TRUE

\* The first of the six tiers (the default included) whose condition holds
FirstTier(text, catalog) ==
    CHOOSE k \in 1..6 :
        TierHolds(k, text, catalog) /\ \A j \in 1..(k - 1) : ~TierHolds(j, text, catalog)

\* What the cascade prescribes for a prompt: the winning tier, the intent
\* type, the confidences the tier can give and the phrase the reasoning
\* quotes ("" where the tier quotes none).
Cascade(prompt, catalog) ==
    LET text == Strip(Lower(prompt))
        k == FirstTier(text, catalog)
        Of(type, confs, quoted) == [tier |-> k, type |-> type, confs |-> confs, quoted |-> quoted]
    IN  CASE k = 1 -> Of("high_level_plan", {95}, FirstMentioned(text, plan_verbs))
          [] k = 2 -> Of("cut_analysis", {90}, "")
          [] k = 3 -> IF Mentions(text, segment_verbs)
                      THEN Of("segment_definition", {95}, FirstMentioned(text, segment_verbs))
                      ELSE Of("segment_definition", {90}, FirstMentioned(text, segment_patterns))
          [] k = 4 -> IF Mentions(text, chat_patterns)
                      THEN Of("chat", {90}, FirstMentioned(text, chat_patterns))
                      ELSE Of("chat", {90}, FirstMentioned(text, casual_phrases))
          [] k = 5 -> Of("cut_analysis", {95, 85, 80, 75}, "")
          [] OTHER -> Of("chat", {50}, "")

\* Cascade for the prompts and catalogs of the model, evaluated once.
CascadeTable == {<<c, u, Cascade(u, c)>> : c \in Catalogs, u \in Inputs}

\* The classifier returned an intent for the prompt of the turn.
Classified == TurnDone /\ Turn.env.intent_out.ok

ClassifiedIntent == Get(Turn.env.intent_out.data)

\* What the cascade prescribes for the prompt of the turn
TurnCascade == (CHOOSE e \in CascadeTable : e[1] = self.questions /\ e[2] = Turn.input)[3]

\* C13: the classifier's result is that of the first tier, in the fixed
\* order, whose condition holds on the lower-cased, trimmed prompt, whatever
\* lower tiers match too; within a tier the first listed phrase wins.
C13_FirstMatchWins ==
    Classified =>
        /\ ClassifiedIntent.intent_type = TurnCascade.type
        /\ ClassifiedIntent.confidence \in TurnCascade.confs
        /\ TurnCascade.quoted # "" =>
              Contains(ClassifiedIntent.reasoning, ": '" \o TurnCascade.quoted \o "'")

\* C13 witness: a prompt with two planning phrases, the earlier-listed a
\* prefix of the later, and with the words of the multi-intent tier too,
\* was classified as high_level_plan.
C13_Witness ==
    /\ Classified
    /\ TurnCascade.tier = 1
    /\ Contains(Lower(Turn.input), plan_verbs[5]) /\ Contains(Lower(Turn.input), plan_verbs[7])
    /\ TierHolds(2, Lower(Turn.input), self.questions)
    /\ ClassifiedIntent.intent_type = "high_level_plan"

\* A prompt with no analysis-planning phrase that holds an analysis action
\* verb and a segment noun
IsMultiIntent(prompt) ==
    \E text \in {Strip(Lower(prompt))} :
        /\ ~Mentions(text, plan_verbs)
        /\ Mentions(text, <<"analyze", "show", "display">>)
        /\ Mentions(text, <<"segment", "cohort", "audience">>)

\* IsMultiIntent for the prompts of the model, evaluated once.
MultiIntentTable == {<<u, IsMultiIntent(u)>> : u \in Inputs}

\* C14: a prompt with no analysis-planning phrase that holds an analysis
\* action verb (analyze, show, display) and a segment noun (segment, cohort,
\* audience) is classified cut_analysis with confidence 0.9, also when it
\* holds a segment-creation verb or a conversational pattern.
C14_MultiIntentOverride ==
    (Classified /\ <<Turn.input, TRUE>> \in MultiIntentTable)
        => /\ ClassifiedIntent.intent_type = "cut_analysis"
           /\ ClassifiedIntent.confidence = 90

\* C14 witness: a prompt with "show" and "segment", the segment-creation
\* verb "define segment" and the conversational pattern "hello" was
\* classified cut_analysis.
C14_Witness ==
    /\ Classified
    /\ <<Turn.input, TRUE>> \in MultiIntentTable
    /\ TurnCascade.tier = 2
    /\ Contains(Lower(Turn.input), "define segment")
    /\ Contains(Lower(Turn.input), "hello")
    /\ ClassifiedIntent.intent_type = "cut_analysis"
    /\ ClassifiedIntent.confidence = 90

\* The confidence (in hundredths) the cut-analysis tier gives a prompt by
\* its strongest signal, 0 where a tier 1-4 rule matches or no signal is
\* present: question id or label token with an analysis verb, 95; question
\* id or label token alone, 85; "by" with an analysis verb, 80.
StrongestSignal(prompt, catalog) ==
    LET text == Strip(Lower(prompt))
        named == MentionsQuestionId(text, catalog) \/ MentionsLabelToken(text, catalog)
        verb == Mentions(text, analysis_verbs)
    IN  IF \E k \in 1..4 : TierHolds(k, text, catalog) THEN 0
        ELSE IF named /\ verb THEN 95
        ELSE IF named THEN 85
        ELSE IF Contains(text, " by ") /\ verb THEN 80
        ELSE 0

\* StrongestSignal for the prompts and catalogs of the model, evaluated once.
StrongestSignalTable == {<<c, u, StrongestSignal(u, c)>> : c \in Catalogs, u \in Inputs}

TurnSignal ==
    (CHOOSE e \in StrongestSignalTable : e[1] = self.questions /\ e[2] = Turn.input)[3]

\* C15: when no tier 1-4 rule matches, a prompt with a cut-analysis signal
\* is classified cut_analysis with the confidence of its strongest signal: a
\* question id or label token with an analysis verb 0.95, a bare question
\* id or label token 0.85, otherwise "by" with an analysis verb 0.8.
C15_StrongestSignalWins ==
    (Classified /\ TurnSignal > 0)
        => /\ ClassifiedIntent.intent_type = "cut_analysis"
           /\ ClassifiedIntent.confidence = TurnSignal

\* The results _classify_intent can return for the prompt of the turn
TurnClassifications ==
    (CHOOSE e \in ClassifyIntentTable : e[1] = self.questions /\ e[2] = Turn.input)[3]

\* C16: the classifier returns one UserIntent per (prompt, catalog): any two
\* calls, in the same run or in different runs, agree in intent_type,
\* confidence and reasoning, also when several question ids occur in the
\* prompt.
C16_ClassifierDeterministic ==
    Classified => \A a, b \in TurnClassifications : a = b

\* ------------------------------------------------------------------------
\* Routing scenarios
\* ------------------------------------------------------------------------

\* s.startswith(prefix)
BeginsWith(s, prefix) == Len(prefix) <= Len(s) /\ SubSeq(s, 1, Len(prefix)) = prefix

\* The catalog has a plan-related question: id "Q_PLAN" or a label that
\* contains "plan", in any case.
HasPlanQuestion(catalog) ==
    \E i \in 1..Len(catalog) :
        \/ Lower(catalog[i].question_id) = "q_plan"
        \/ Contains(Lower(catalog[i].label), "plan")

\* The turn began Idle and its input was "create an analysis plan".
PlanRequestTurn == TurnDone /\ ~WasPending /\ Turn.input = "create an analysis plan"

\* The turn went to the high-level planner: intent high_level_plan and,
\* when the planner succeeded, success with a message that begins with
\* "Analysis plan:".
RoutedToPlanner ==
    /\ ~IsNone(Turn.resp)
    /\ "high_level_planner" \in CalledTools
    /\ Get(Turn.resp).intent.intent_type = "high_level_plan"
    /\ ~Turn.env.plan.raises =>
          /\ Get(Turn.resp).success
          /\ ~IsNone(Get(Turn.resp).message)
          /\ BeginsWith(Get(Get(Turn.resp).message), "Analysis plan:")

SharingLabelWord(word, catalog) ==
    {catalog[i].question_id : i \in {j \in 1..Len(catalog) :
                                        Contains(Lower(catalog[j].label), word)}}

\* A request of an analysis verb followed by a label word that more than one
\* question of the catalog shares
NamesSharedLabelWord(user_input, catalog) ==
    \E tokens \in {Split(Lower(Strip(user_input)))} :
        /\ Len(tokens) = 2
        /\ tokens[1] \in {"analyze", "analyse", "average", "show"}
        /\ Cardinality(SharingLabelWord(tokens[2], catalog)) > 1

\* NamesSharedLabelWord for the model's inputs and catalogs, evaluated once.
NamesSharedLabelWordTable ==
    {<<c, u, NamesSharedLabelWord(u, c)>> : c \in Catalogs, u \in Inputs}

SharedLabelWordTurn ==
    /\ TurnDone
    /\ ~WasPending
    /\ <<self.questions, Turn.input, TRUE>> \in NamesSharedLabelWordTable

\* The question ids the options of the turn's clarification stand for
OptionQuestionIds ==
    LET options == Get(Get(Turn.resp).clarify).options
    IN  {Get(options[i].action_params) :
            i \in {j \in 1..Len(options) : ~IsNone(options[j].action_params)}}

\* C18: a request of an analysis verb and a label word that several questions
\* share ("analyze satisfaction") is answered with a clarification whose
\* options are the matching questions, and no planner, segment builder or
\* executor is called.
C18_SharedLabelWordClarifies ==
    SharedLabelWordTurn =>
        /\ IsClarifyTurn
        /\ OptionQuestionIds =
              SharingLabelWord(Split(Lower(Strip(Turn.input)))[2], self.questions)
        /\ CalledTools \cap {"cut_planner", "high_level_planner", "segment_builder",
                              "executor"} = {}

\* A breakdown request with no metric: an analysis verb and the word "by",
\* and no question id of the catalog
IsUnderspecifiedBreakdown(user_input, catalog) ==
    \E text \in {Lower(Strip(user_input))} :
        /\ Mentions(text, analysis_verbs)
        /\ \E tokens \in {Split(text)} : \E i \in 1..Len(tokens) : tokens[i] = "by"
        /\ ~MentionsQuestionId(text, catalog)

\* IsUnderspecifiedBreakdown for the model's inputs and catalogs, evaluated once.
UnderspecifiedBreakdownTable ==
    {<<c, u, IsUnderspecifiedBreakdown(u, c)>> : c \in Catalogs, u \in Inputs}

UnderspecifiedBreakdownTurn ==
    /\ TurnDone
    /\ ~WasPending
    /\ <<self.questions, Turn.input, TRUE>> \in UnderspecifiedBreakdownTable

\* C19: a breakdown request that names a dimension but no metric question
\* ("break down by region") is answered with success and a non-empty
\* message, with no call of the high-level planner, the cut planner, the
\* segment builder or the executor, and with no new segment.
C19_UnderspecifiedBreakdownClarifies ==
    UnderspecifiedBreakdownTurn =>
        /\ ~IsNone(Turn.resp)
        /\ Get(Turn.resp).success
        /\ ~IsNone(Get(Turn.resp).message)
        /\ Get(Get(Turn.resp).message) # ""
        /\ CalledTools \cap {"cut_planner", "high_level_planner", "segment_builder",
                              "executor"} = {}
        /\ SegmentsUnchanged

\* ------------------------------------------------------------------------
\* Failures of the structured completion
\* ------------------------------------------------------------------------

\* The tools that ask the structured completion
CompletionTools == {"cut_planner", "segment_builder", "high_level_planner", "chat_responder"}

\* The completion raised inside call c of the turn: the tool got as far as
\* asking it (the prompt check passed) and the environment's outcome is an
\* exception.
CompletionRaised(c) ==
    \/ c.tool = "cut_planner" /\ c.arg # "" /\ Turn.env.cut.raises
    \/ c.tool = "segment_builder" /\ c.arg # "" /\ Turn.env.seg.raises
    \/ c.tool = "high_level_planner" /\ Turn.env.plan.raises
    \/ c.tool = "chat_responder" /\ c.arg # "" /\ Turn.env.chat.raises

\* What the tool of call c returned
ToolOutputOf(c) ==
    CASE c.tool = "cut_planner" -> CutPlannerRun(c.arg, Turn.env.cut)
      [] c.tool = "segment_builder" -> SegmentBuilderRun(c.arg, Turn.env.seg)
      [] c.tool = "high_level_planner" -> HighLevelPlannerRun(c.arg, Turn.env.plan)
      [] c.tool = "chat_responder" -> ChatResponderRun(c.arg, Turn.env.chat)

\* A failure envelope with a single tool_error
IsSingleToolError(out) ==
    /\ ~out.ok
    /\ IsNone(out.data)
    /\ Len(out.errors) = 1
    /\ out.errors[1].code = "tool_error"

\* C20: when the structured completion raises, the calling tool returns
\* ok=false, no data and a single tool_error, and handle_message returns
\* success=false, does not call the executor and leaves the segments as
\* they were.
C20_CompletionFailureContained ==
    TurnDone =>
        \A i \in 1..Len(Turn.calls) :
            CompletionRaised(Turn.calls[i]) =>
                /\ IsSingleToolError(ToolOutputOf(Turn.calls[i]))
                /\ ~IsNone(Turn.resp)
                /\ ~Get(Turn.resp).success
                /\ "executor" \notin CalledTools
                /\ SegmentsUnchanged

\* C20 witness: the completion raised inside the cut planner, called for a
\* selected option, with a segment registered.
C20_Witness ==
    /\ TurnDone
    /\ IsSelection
    /\ Len(Turn.pre.segments) > 0
    /\ \E i \in 1..Len(Turn.calls) :
          Turn.calls[i].tool = "cut_planner" /\ CompletionRaised(Turn.calls[i])
    /\ ~Get(Turn.resp).success

\* ------------------------------------------------------------------------
\* Cut planning
\* ------------------------------------------------------------------------

\* The collaborator's replies that report inability and give the outcome the
\* cut planner saw this turn
InabilityReplies ==
    {payload \in CutPlanPayloads :
        ~payload.ok /\ CutPlanResultValidate(payload) = Turn.env.cut}

\* The calls of the cut planner this turn that reached the collaborator
CutPlannerCalls ==
    {i \in 1..Len(Turn.calls) :
        Turn.calls[i].tool = "cut_planner" /\ Turn.calls[i].arg # ""}

\* C21: when the cut-planning collaborator replies ok=false, with or without
\* a cut, CutPlanner.run returns a failure whose error code is
\* planning_failed, and the executor is not called.
C21_InabilityIsPlanningFailed ==
    (TurnDone /\ InabilityReplies # {}) =>
        \A i \in CutPlannerCalls :
            \E out \in {CutPlannerRun(Turn.calls[i].arg, Turn.env.cut)} :
                /\ ~out.ok
                /\ \A k \in 1..Len(out.errors) : out.errors[k].code = "planning_failed"
                /\ "executor" \notin CalledTools

\* ------------------------------------------------------------------------
\* Tool output envelopes
\* ------------------------------------------------------------------------

\* The tools that answer with a ToolOutput
EnvelopeTools == CompletionTools \cup {"intent_classifier"}

\* The calls of the turn to a tool that answers with a ToolOutput
EnvelopeCalls == {i \in 1..Len(Turn.calls) : Turn.calls[i].tool \in EnvelopeTools}

\* The ToolOutput of call c
EnvelopeOf(c) ==
    IF c.tool = "intent_classifier" THEN Turn.env.intent_out ELSE ToolOutputOf(c)

IsSuccessEnvelope(out) == out.ok /\ ~IsNone(out.data) /\ Len(out.errors) = 0

IsFailureEnvelope(out) == ~out.ok /\ IsNone(out.data) /\ Len(out.errors) > 0

\* C22: every tool output is a success (ok, data, no errors) or a failure
\* (not ok, no data, errors), and a turn in which a tool output is not a
\* success does not end in a successful response.
C22_EnvelopeShapes ==
    TurnDone =>
        \A i \in EnvelopeCalls :
            \E out \in {EnvelopeOf(Turn.calls[i])} :
                /\ IsSuccessEnvelope(out) \/ IsFailureEnvelope(out)
                /\ ~(out.ok /\ ~IsNone(out.data)) =>
                      (~IsNone(Turn.resp) /\ ~Get(Turn.resp).success)

\* C22 witness: a turn with a success envelope from the classifier and a
\* failure envelope from the tool it routed to.
C22_Witness ==
    /\ TurnDone
    /\ \E i, j \in EnvelopeCalls :
          /\ IsSuccessEnvelope(EnvelopeOf(Turn.calls[i]))
          /\ IsFailureEnvelope(EnvelopeOf(Turn.calls[j]))
    /\ ~Get(Turn.resp).success

\* ------------------------------------------------------------------------
\* One tool per turn
\* ------------------------------------------------------------------------

\* The calls of the turn to a tool that asks the structured completion
CompletionCalls == {i \in 1..Len(Turn.calls) : Turn.calls[i].tool \in CompletionTools}

\* The tool that serves an intent type or an action type
ToolFor(type) ==
    CASE type = "high_level_plan" -> "high_level_planner"
      [] type = "segment_definition" -> "segment_builder"
      [] type = "cut_analysis" -> "cut_planner"
      [] OTHER -> "chat_responder"

\* The intent type the turn is routed by: the action type of the selected
\* option, or else the classified intent
RoutedType ==
    IF IsSelection THEN Get(Turn.pre.pending)[Int(TurnText)].action_type
    ELSE ClassifiedIntent.intent_type

\* C23: a turn calls at most one of chat responder, high-level planner,
\* segment builder and cut planner; the tool called is the one of the
\* classified intent or of the selected option; its result comes from one
\* completion (a completion that raises is not tried again: the tool
\* fails); a clarify turn calls none.
C23_OneToolPerTurn ==
    TurnDone =>
        /\ Cardinality(CompletionCalls) <= 1
        /\ \A i \in CompletionCalls :
              /\ Turn.calls[i].tool = ToolFor(RoutedType)
              /\ CompletionRaised(Turn.calls[i]) => ~ToolOutputOf(Turn.calls[i]).ok
        /\ IsClarifyTurn => CompletionCalls = {}

\* C23 witness: the selection of a cut_analysis option called the cut
\* planner and no other of the four tools.
C23_Witness ==
    /\ TurnDone
    /\ IsSelection
    /\ RoutedType = "cut_analysis"
    /\ {Turn.calls[i].tool : i \in CompletionCalls} = {"cut_planner"}

\* ------------------------------------------------------------------------
\* The message of a cut analysis
\* ------------------------------------------------------------------------

\* The positions of the line breaks of a string
LineBreaks(s) == {i \in 1..Len(s) : CharAt(s, i) = "\n"}

\* s.split("\n")
Lines(s) ==
    LET breaks == LineBreaks(s)
        Break(k) == IF k = 0 THEN 0
                    ELSE IF k > Cardinality(breaks) THEN Len(s) + 1
                    ELSE CHOOSE p \in breaks : Cardinality({q \in breaks : q < p}) = k - 1
    IN  [k \in 1..(Cardinality(breaks) + 1) |-> SubSeq(s, Break(k - 1) + 1, Break(k) - 1)]

\* The turn answered a cut analysis with success.
CutSucceeded ==
    /\ TurnDone
    /\ ~IsNone(Turn.resp)
    /\ Get(Turn.resp).success
    /\ Get(Turn.resp).intent.intent_type = "cut_analysis"

\* The cut the planner returned this turn and the executor's result for it
PlannedCut == Turn.env.cut.value.cut
ExecResult == Turn.env.exec

\* The message of the turn has the sections of a cut analysis, with base_n
\* after "Base N: " and a preview exactly when has_rows.
HasCutSections(base_n, has_rows) ==
    \E lines \in {Lines(Get(Get(Turn.resp).message))} :
        /\ Len(lines) >= 7
        /\ lines[1] = "CutSpec:"
        /\ lines[2] = "- cut_id: " \o PlannedCut.cut_id
        /\ BeginsWith(lines[3], "- metric: " \o PlannedCut.metric.type \o " on ")
        /\ BeginsWith(lines[4], "- dimensions: ")
        /\ BeginsWith(lines[5], "- filter: ")
        /\ lines[6] = ""
        /\ lines[7] = "Base N: " \o ToStr(base_n)
        /\ IF has_rows
           THEN Len(lines) >= 10 /\ lines[8] = "" /\ lines[9] = ExecResult.tables[1].df.header
           ELSE Len(lines) = 7

\* C24 as stated: the message of every successful cut analysis is the
\* CutSpec block, then "Base N: <n>" with n the base_n of the first result
\* table, then a preview if and only if that table is non-empty.
C24_CutMessageSectionsOfFirstTable ==
    CutSucceeded =>
        /\ Len(ExecResult.tables) > 0
        /\ HasCutSections(ExecResult.tables[1].base_n,
                          Len(ExecResult.tables[1].df.rows) > 0)

\* C24, amended: as stated when the executor returned a table; when it
\* returned none, n is 0 and there is no preview.
C24_CutMessageSections ==
    CutSucceeded =>
        IF Len(ExecResult.tables) > 0
        THEN HasCutSections(ExecResult.tables[1].base_n,
                            Len(ExecResult.tables[1].df.rows) > 0)
        ELSE HasCutSections(0, FALSE)

\* C24 witness: a successful cut analysis with a filter, a table with rows
\* and so a preview.
C24_Witness ==
    /\ CutSucceeded
    /\ ~IsNone(PlannedCut.filter)
    /\ Len(ExecResult.tables) > 0
    /\ Len(ExecResult.tables[1].df.rows) > 0
    /\ Contains(Get(Get(Turn.resp).message), ExecResult.tables[1].df.header)

\* ------------------------------------------------------------------------
\* Empty input
\* ------------------------------------------------------------------------

\* C25: an input that is empty after trimming is rejected as missing input:
\* the response has success=false and a missing_prompt error, none of chat
\* responder, planners, segment builder and executor is called, the
\* segments stay as they were and nothing is pending.
C25_EmptyInputRejected ==
    (TurnDone /\ TurnText = "") =>
        /\ ~IsNone(Turn.resp)
        /\ ~Get(Turn.resp).success
        /\ \E k \in 1..Len(Get(Turn.resp).errors) :
              BeginsWith(Get(Turn.resp).errors[k], "missing_prompt")
        /\ CalledTools \cap (CompletionTools \cup {"executor"}) = {}
        /\ SegmentsUnchanged
        /\ IsNone(self.pending)

\* ------------------------------------------------------------------------
\* The options of a clarification
\* ------------------------------------------------------------------------

\* The options of the turn's clarification
TurnOptions == Get(Get(Turn.resp).clarify).options

\* The option ids of the plan collision
PlanOptionIds == <<"opt_high_level_plan", "opt_cut_q_plan">>

IsPlanOption(o) == \E k \in 1..Len(PlanOptionIds) : o.option_id = PlanOptionIds[k]

\* The position in the catalog of the question an option stands for
CatalogPosition(o, catalog) ==
    CHOOSE k \in 1..Len(catalog) : catalog[k].question_id = Get(o.action_params)

\* C26: in every clarification the plan-collision options (create analysis
\* plan, then analyze Q_PLAN) come before the per-question options, the
\* per-question options follow catalog order, the option ids are pairwise
\* distinct, and there are at most 5 options.
C26_OptionsOrdered ==
    (TurnDone /\ IsClarifyTurn) =>
        \E options \in {TurnOptions} :
            /\ Len(options) <= 5
            /\ \A i, j \in 1..Len(options) :
                  /\ i # j => options[i].option_id # options[j].option_id
                  /\ (i < j /\ IsPlanOption(options[j])) =>
                        /\ IsPlanOption(options[i])
                        /\ options[i].option_id = PlanOptionIds[1]
                  /\ (i < j /\ ~IsPlanOption(options[i]) /\ ~IsPlanOption(options[j])) =>
                        CatalogPosition(options[i], self.questions)
                            < CatalogPosition(options[j], self.questions)

\* C26 witness: a clarification with both plan-collision options followed
\* by a per-question option.
C26_Witness ==
    /\ TurnDone
    /\ IsClarifyTurn
    /\ Len(TurnOptions) >= 3
    /\ TurnOptions[1].option_id = PlanOptionIds[1]
    /\ TurnOptions[2].option_id = PlanOptionIds[2]
    /\ ~IsPlanOption(TurnOptions[3])

\* ------------------------------------------------------------------------
\* The two cut-analysis paths
\* ------------------------------------------------------------------------

\* The turn ran the cut analysis of a selected option (_execute_action).
CutSelectionTurn == TurnDone /\ IsSelection /\ RoutedType = "cut_analysis"

\* What the cut-analysis path of handle_message does from the state before
\* the turn with the planner output and the executor result of the turn
DirectCutAnalysis ==
    HandleCutAnalysis(Turn.pre, UserIntent("cut_analysis", 75, "direct"),
                      Turn.calls[1].arg, self.questions, Turn.env, <<>>)

\* C27: the cut analysis of a selected option and the cut-analysis path of
\* handle_message give, for the same planner output and the same executor
\* result, the same success flag, errors, message and data.
C27_CutPathsEquivalent ==
    CutSelectionTurn =>
        \E direct \in {DirectCutAnalysis} :
            /\ IsNone(Turn.resp) = IsNone(direct.resp)
            /\ ~IsNone(Turn.resp) =>
                  /\ Get(Turn.resp).success = Get(direct.resp).success
                  /\ Get(Turn.resp).errors = Get(direct.resp).errors
                  /\ Get(Turn.resp).message = Get(direct.resp).message
                  /\ Get(Turn.resp).data = Get(direct.resp).data

\* ------------------------------------------------------------------------
\* The two views of the segments
\* ------------------------------------------------------------------------

\* C28: in every state the segments list has pairwise distinct segment ids,
\* its ids are the keys of segments_by_id, and for every id the list entry
\* and the map entry are the same specification.
C28_SegmentViewsAgree ==
    /\ \A i, j \in 1..Len(self.segments) :
          i # j => self.segments[i].segment_id # self.segments[j].segment_id
    /\ {self.segments[i].segment_id : i \in 1..Len(self.segments)}
          = DOMAIN self.segments_by_id
    /\ \A i \in 1..Len(self.segments) :
          self.segments_by_id[self.segments[i].segment_id] = self.segments[i]

\* C28 witness: two segments are registered and one of them was defined
\* again with another definition.
C28_Witness ==
    /\ Len(self.segments) = 2
    /\ TurnDone
    /\ IsRedefinition
    /\ \E i \in 1..Len(Turn.pre.segments) :
          /\ Turn.pre.segments[i].segment_id \in DOMAIN self.segments_by_id
          /\ self.segments_by_id[Turn.pre.segments[i].segment_id] # Turn.pre.segments[i]

\* ------------------------------------------------------------------------
\* The choice a clarification offers
\* ------------------------------------------------------------------------

\* C29: no two options of a clarification have the same action type and the
\* same question id in their action parameters.
C29_NoInterpretationTwice ==
    (TurnDone /\ IsClarifyTurn) =>
        \A i, j \in 1..Len(TurnOptions) :
            i # j =>
                \/ TurnOptions[i].action_type # TurnOptions[j].action_type
                \/ TurnOptions[i].action_params # TurnOptions[j].action_params

\* C30: every clarification has at least two options.
C30_AtLeastTwoOptions ==
    (TurnDone /\ IsClarifyTurn) => Len(TurnOptions) >= 2

====
